---- MODULE Spec2Model ----
(***************************************************************************)
(* Outbound message pipeline of the HTTP server:                           *)
(*   - ResponseEncoder / PayloadEncoder / LengthEncoder (codec framing)     *)
(*   - Encoder / EncodedBody / EncodeInterceptor (content compression)      *)
(* Each component has its own specification (SpecRE, SpecBody, SpecIC,     *)
(* SpecSel); the variables of the other components stay idle.              *)
(***************************************************************************)
EXTENDS Integers, Sequences, FiniteSets, TLC

VARIABLES
    payload_encoder,  \* ResponseEncoder.payload_encoder : Option<PayloadEncoder>
    dst,              \* the BytesMut handed to ResponseEncoder::encode
    history,          \* ghost: one record per encode call, in submission order
    state,            \* EncodedBody.state : Option<bool>
    encoder,          \* EncodedBody.encoder : Option<Encoder>
    inner,            \* EncodedBody.inner : the upstream body (what it still yields)
    polls,            \* ghost: one record per poll_frame call, in order
    init0,            \* ghost: the upstream body and encoder EncodedBody::new was given
    accept_tokens,    \* ghost: the tokens the Accept-Encoding value lists, in order
    accept_header, \* the &str handed to Encoder::select
    selected,         \* what Encoder::select returned: Option<Encoder> (its variant)
    sel_pc,           \* "call" before Encoder::select has run, "done" after
    req,              \* on_response: the request's context (its headers)
    resp,             \* on_response: the response (status, headers, body)
    resp0,            \* ghost: the response as on_response received it
    ic_pc             \* "call" before on_response has run, "done" after

reVars == <<payload_encoder, dst, history>>

bodyVars == <<state, encoder, inner, polls, init0>>

selVars == <<accept_tokens, accept_header, selected, sel_pc>>

icVars == <<req, resp, resp0, ic_pc>>

NoMessage == [status |-> 0, headers |-> <<>>]

vars == <<payload_encoder, dst, history, state, encoder, inner, polls, init0,
          accept_tokens, accept_header, selected, sel_pc, req, resp, resp0, ic_pc>>

(***************************************************************************)
(* Bounds of the model.                                                    *)
(***************************************************************************)
MaxMsgs == 4

MaxFrames == 3

MaxPolls == MaxFrames + 3

MaxBlock == 2

MaxTokens == 3

(***************************************************************************)
(* Option<T> is a sequence of length 0 (None) or 1 (Some(x)).              *)
(***************************************************************************)
None == <<>>

Some(x) == <<x>>

is_some(o) == Len(o) > 0

is_none(o) == Len(o) = 0

unwrap(o) == o[1]

(***************************************************************************)
(* protocol::PayloadSize, PayloadItem, Message                             *)
(***************************************************************************)
PayloadSizes ==
    { [tag |-> "Length", n |-> 0], [tag |-> "Length", n |-> 2],
      [tag |-> "Chunked", n |-> 0], [tag |-> "Empty", n |-> 0] }

ChunkBytes == { <<>>, <<"a">>, <<"b", "a">> }

Eof == [item |-> "Eof", bytes |-> <<>>]

Chunk(b) == [item |-> "Chunk", bytes |-> b]

\* mutant: a zero-length chunk is taken for the end of the body
is_eof_or_empty(payload_item) ==
    payload_item.item = "Eof" \/ Len(payload_item.bytes) = 0

is_eof(payload_item) == payload_item.item = "Eof"

(***************************************************************************)
(* codec::body::LengthEncoder                                              *)
(***************************************************************************)
\* mutant: the declared length of zero is not tested
LengthEncoder_encode_no_zero(length, item, d) ==
    IF item.item = "Chunk"
    THEN IF Len(item.bytes) = 0 THEN [dst |-> d, res |-> "Ok"]
         ELSE [dst |-> d \o item.bytes, res |-> "Ok"]
    ELSE [dst |-> d, res |-> "Ok"]

LengthEncoder_encode(length, item, d) ==
    IF length = 0 THEN [dst |-> d, res |-> "Ok"]
    ELSE IF item.item = "Chunk"
         THEN IF Len(item.bytes) = 0 THEN [dst |-> d, res |-> "Ok"]
              ELSE [dst |-> d \o item.bytes, res |-> "Ok"]
         ELSE [dst |-> d, res |-> "Ok"]

(***************************************************************************)
(* codec::body::ChunkedEncoder (chunked transfer coding)                   *)
(***************************************************************************)
HexDigits == <<"0", "1", "2", "3", "4", "5", "6", "7",
               "8", "9", "A", "B", "C", "D", "E", "F">>

RECURSIVE Hex(_)
Hex(n) == IF n < 16 THEN <<HexDigits[n + 1]>>
          ELSE Hex(n \div 16) \o <<HexDigits[(n % 16) + 1]>>

CRLF == <<"\r", "\n">>

Terminator == <<"0">> \o CRLF \o CRLF

ChunkedEncoder_encode(eof, item, d) ==
    IF eof THEN [eof |-> eof, dst |-> d, res |-> "Ok"]
    ELSE IF item.item = "Chunk"
         THEN IF Len(item.bytes) = 0 THEN [eof |-> eof, dst |-> d, res |-> "Ok"]
              ELSE [eof |-> eof,
                    dst |-> d \o Hex(Len(item.bytes)) \o CRLF \o item.bytes \o CRLF,
                    res |-> "Ok"]
         ELSE [eof |-> TRUE, dst |-> d \o Terminator, res |-> "Ok"]

(***************************************************************************)
(* codec::body::PayloadEncoder                                             *)
(***************************************************************************)
PayloadEncoder_empty == [kind |-> "NoBody", length |-> 0, eof |-> FALSE]

PayloadEncoder_chunked == [kind |-> "Chunked", length |-> 0, eof |-> FALSE]

PayloadEncoder_fix_length(size) == [kind |-> "Length", length |-> size, eof |-> FALSE]

\* returns the encoder after the call, the sink after the call and the result
PayloadEncoder_encode(enc, item, d) ==
    CASE enc.kind = "Length" ->
            LET r == LengthEncoder_encode(enc.length, item, d)
            IN  [enc |-> enc, dst |-> r.dst, res |-> r.res]
      [] enc.kind = "Chunked" ->
            LET r == ChunkedEncoder_encode(enc.eof, item, d)
            IN  [enc |-> [enc EXCEPT !.eof = r.eof], dst |-> r.dst, res |-> r.res]
      [] enc.kind = "NoBody" -> [enc |-> enc, dst |-> d, res |-> "Ok"]

(***************************************************************************)
(* codec::header::HeaderEncoder (collaborator): serialises the head, or    *)
(* fails; hdr_ok is the outcome the collaborator reports.                  *)
(***************************************************************************)
HeadBytes == <<"H", "\r", "\n">>

HeaderEncoder_encode(payload_size, d, hdr_ok) ==
    IF hdr_ok THEN [dst |-> d \o HeadBytes, res |-> "Ok"]
    ELSE [dst |-> d, res |-> "HeaderError"]

(***************************************************************************)
(* codec::ResponseEncoder                                                  *)
(***************************************************************************)
parse_payload_encoder(payload_size) ==
    CASE payload_size.tag = "Length" -> PayloadEncoder_fix_length(payload_size.n)
      [] payload_size.tag = "Chunked" -> PayloadEncoder_chunked
      [] payload_size.tag = "Empty" -> PayloadEncoder_empty

\* mutant: a Header is never rejected
header_rejected_never(pe) == FALSE

\* Message::Header arm, the early return
header_rejected(pe) == is_some(pe)

\* Message::Payload arm, the early return
payload_rejected(pe) == ~ is_some(pe)

\* mutant: the payload encoder is kept after Eof
take_if_eof_keep(pe, eof) == pe

\* mutant: the payload encoder is taken on a chunk instead of on Eof
take_if_eof_inverted(pe, eof) == IF eof THEN pe ELSE None

\* if is_eof { self.payload_encoder.take(); }
take_if_eof(pe, eof) == IF eof THEN None ELSE pe

\* mutant: the payload encoder is installed only when the head was serialised
encode_header_install_on_success(pe, payload_size, d, hdr_ok) ==
    IF header_rejected(pe)
    THEN [pe |-> pe, dst |-> d, res |-> "InvalidInput", hdr |-> FALSE]
    ELSE LET r == HeaderEncoder_encode(payload_size, d, hdr_ok)
         IN  [pe |-> IF r.res = "Ok" THEN Some(parse_payload_encoder(payload_size))
                     ELSE pe,
              dst |-> r.dst, res |-> r.res, hdr |-> TRUE]

\* mutant: a rejected Header drops the active payload encoder
encode_header_reset_on_reject(pe, payload_size, d, hdr_ok) ==
    IF header_rejected(pe)
    THEN [pe |-> None, dst |-> d, res |-> "InvalidInput", hdr |-> FALSE]
    ELSE LET r == HeaderEncoder_encode(payload_size, d, hdr_ok)
         IN  [pe |-> Some(parse_payload_encoder(payload_size)),
              dst |-> r.dst, res |-> r.res, hdr |-> TRUE]

\* ResponseEncoder::encode on Message::Header((head, payload_size))
encode_header(pe, payload_size, d, hdr_ok) ==
    IF header_rejected(pe)
    THEN [pe |-> pe, dst |-> d, res |-> "InvalidInput", hdr |-> FALSE]
    ELSE LET r == HeaderEncoder_encode(payload_size, d, hdr_ok)
         IN  [pe |-> Some(parse_payload_encoder(payload_size)),
              dst |-> r.dst, res |-> r.res, hdr |-> TRUE]

\* mutant: a payload with no active encoder is dropped silently
encode_payload_lenient(pe, payload_item, d) ==
    IF payload_rejected(pe)
    THEN [pe |-> pe, dst |-> d, res |-> "Ok", hdr |-> FALSE]
    ELSE LET r == PayloadEncoder_encode(unwrap(pe), payload_item, d)
         IN  [pe |-> take_if_eof(Some(r.enc), is_eof(payload_item)),
              dst |-> r.dst, res |-> r.res, hdr |-> FALSE]

\* ResponseEncoder::encode on Message::Payload(payload_item)
encode_payload(pe, payload_item, d) ==
    IF payload_rejected(pe)
    THEN [pe |-> pe, dst |-> d, res |-> "InvalidInput", hdr |-> FALSE]
    ELSE LET r == PayloadEncoder_encode(unwrap(pe), payload_item, d)
         IN  [pe |-> take_if_eof(Some(r.enc), is_eof(payload_item)),
              dst |-> r.dst, res |-> r.res, hdr |-> FALSE]

\* ghost record of one encode call
Entry(msg, size, bytes, before, d, r) ==
    [msg |-> msg, size |-> size, bytes |-> bytes, before |-> before, pe |-> r.pe,
     active |-> is_some(before),
     kind |-> IF is_some(before) THEN unwrap(before).kind ELSE "None",
     res |-> r.res, hdr |-> r.hdr,
     out |-> SubSeq(r.dst, Len(d) + 1, Len(r.dst)),
     grew |-> (Len(r.dst) >= Len(d) /\ SubSeq(r.dst, 1, Len(d)) = d),
     after |-> is_some(r.pe)]

NoSize == [tag |-> "None", n |-> 0]

REStart ==
    /\ payload_encoder = None
    /\ dst = <<>>
    /\ history = <<>>

BodyIdle ==
    /\ state = None
    /\ encoder = None
    /\ inner = <<>>
    /\ polls = <<>>
    /\ init0 = <<>>

SelIdle ==
    /\ accept_tokens = <<>>
    /\ accept_header = <<>>
    /\ selected = None
    /\ sel_pc = "idle"

ICIdle ==
    /\ req = NoMessage
    /\ resp = NoMessage
    /\ resp0 = NoMessage
    /\ ic_pc = "idle"

REInit == REStart /\ BodyIdle /\ SelIdle /\ ICIdle

EncodeHeader ==
    /\ Len(history) < MaxMsgs
    /\ \E payload_size \in PayloadSizes, hdr_ok \in BOOLEAN :
          LET r == encode_header(payload_encoder, payload_size, dst, hdr_ok)
          IN  /\ payload_encoder' = r.pe
              /\ dst' = r.dst
              /\ history' = Append(history,
                                   Entry("Header", payload_size, <<>>, payload_encoder, dst, r))
    /\ UNCHANGED <<bodyVars, selVars, icVars>>

EncodeChunk ==
    /\ Len(history) < MaxMsgs
    /\ \E b \in ChunkBytes :
          LET r == encode_payload(payload_encoder, Chunk(b), dst)
          IN  /\ payload_encoder' = r.pe
              /\ dst' = r.dst
              /\ history' = Append(history,
                                   Entry("Chunk", NoSize, b, payload_encoder, dst, r))
    /\ UNCHANGED <<bodyVars, selVars, icVars>>

EncodeEof ==
    /\ Len(history) < MaxMsgs
    /\ LET r == encode_payload(payload_encoder, Eof, dst)
       IN  /\ payload_encoder' = r.pe
           /\ dst' = r.dst
           /\ history' = Append(history,
                                Entry("Eof", NoSize, <<>>, payload_encoder, dst, r))
    /\ UNCHANGED <<bodyVars, selVars, icVars>>

NextRE == EncodeHeader \/ EncodeChunk \/ EncodeEof

SpecRE == REInit /\ [][NextRE]_vars

(***************************************************************************)
(* Reading the submission history: message i arrives inside a response     *)
(* when some Header was submitted before it with no Eof in between.        *)
(***************************************************************************)
Open(i) ==
    \E j \in 1..(i - 1) :
        /\ history[j].msg = "Header"
        /\ \A k \in (j + 1)..(i - 1) : history[k].msg # "Eof"

\* the Header that opened the response message i arrives in
Owner(i) ==
    CHOOSE j \in 1..(i - 1) :
        /\ history[j].msg = "Header"
        /\ \A k \in j..(i - 1) : history[k].msg # "Eof"
        /\ \A l \in 1..(j - 1) :
              ~ (/\ history[l].msg = "Header"
                 /\ \A k \in l..(i - 1) : history[k].msg # "Eof")

Accepted(i) == history[i].res # "InvalidInput"

RECURSIVE ConcatOut(_)
ConcatOut(n) == IF n = 0 THEN <<>> ELSE ConcatOut(n - 1) \o history[n].out

\* C1: a Payload message submitted while no payload encoder is active (no
\* Header since construction or since the last Eof) fails with the
\* protocol-violation error (io InvalidInput), and so does a Header message
\* submitted while a payload encoder is active (a Header not yet followed by
\* Eof).
C1_OutOfOrderRejected ==
    \A i \in 1..Len(history) :
        /\ history[i].active = Open(i)
        /\ (history[i].msg \in {"Chunk", "Eof"} /\ ~ Open(i))
              => history[i].res = "InvalidInput"
        /\ (history[i].msg = "Header" /\ Open(i))
              => history[i].res = "InvalidInput"

C1_Witness ==
    /\ \E i \in 1..Len(history) :
          history[i].msg = "Chunk" /\ ~ Open(i) /\ history[i].res = "InvalidInput"
    /\ \E i \in 1..Len(history) :
          history[i].msg = "Header" /\ Open(i) /\ history[i].res = "InvalidInput"

\* C2: every Eof processed while a payload encoder is active leaves the
\* encoder with no active payload encoder, whatever the delegated encode
\* returned; a Header submitted when the previous response has seen its Eof
\* (or when there was none) is accepted: it is not a protocol violation and
\* the header collaborator is invoked.
C2_EofReturnsToAwaitingHeader ==
    /\ \A i \in 1..Len(history) :
          /\ (history[i].msg = "Eof" /\ Open(i)) => ~ history[i].after
          /\ (history[i].msg = "Header" /\ ~ Open(i))
                => (history[i].res # "InvalidInput" /\ history[i].hdr)
    /\ (Len(history) > 0 /\ history[Len(history)].msg = "Eof")
          => payload_encoder = None

C2_Witness ==
    /\ Len(history) = 4
    /\ history[1].msg = "Header" /\ history[2].msg = "Eof"
    /\ history[3].msg = "Header" /\ history[3].res = "Ok"
    /\ history[4].msg = "Eof" /\ history[4].res = "Ok"
    /\ payload_encoder = None

\* C3: at most one payload encoder is active; between two accepted Headers
\* there is always a processed Eof; the output is the concatenation, in
\* submission order, of what each call appended, and every call that appended
\* payload bytes arrived between the accepted Header of its response and that
\* response's Eof (it is framed by the encoder that Header installed).
C3_OneResponseAtATime ==
    /\ Len(payload_encoder) <= 1
    /\ dst = ConcatOut(Len(history))
    /\ \A i \in 1..Len(history) : history[i].grew
    /\ \A i, j \in 1..Len(history) :
          (/\ i < j
           /\ history[i].msg = "Header" /\ Accepted(i)
           /\ history[j].msg = "Header" /\ Accepted(j))
             => \E k \in (i + 1)..(j - 1) : history[k].msg = "Eof" /\ Accepted(k)
    /\ \A i \in 1..Len(history) :
          (history[i].msg # "Header" /\ (history[i].out # <<>> \/ Accepted(i)))
             => /\ Open(i)
                /\ Accepted(Owner(i))
                /\ history[i].kind = parse_payload_encoder(history[Owner(i)].size).kind

C3_Witness ==
    /\ Len(history) = 4
    /\ history[1].msg = "Header" /\ Accepted(1)
    /\ history[2].msg = "Header" /\ ~ Accepted(2)
    /\ history[3].msg = "Chunk" /\ history[3].out # <<>>
    /\ history[4].msg = "Eof" /\ Accepted(4)

\* the calls from Header j up to (not including) the next accepted Header
ResponseSpan(j) ==
    { k \in (j + 1)..Len(history) :
        \A l \in (j + 1)..k : ~ (history[l].msg = "Header" /\ Accepted(l)) }

\* C4: in a response whose PayloadSize is Chunked, the first Eof after the
\* Header is delegated to the chunked encoder and appends the terminator
\* 0 CR LF CR LF; every further Eof before the next Header is rejected and
\* appends nothing, so the terminator is appended exactly once per response.
C4_TerminatorOnce ==
    \A j \in 1..Len(history) :
        (history[j].msg = "Header" /\ Accepted(j) /\ history[j].size.tag = "Chunked")
          => /\ \A k \in ResponseSpan(j) :
                  history[k].msg = "Eof" =>
                      IF \A l \in (j + 1)..(k - 1) : history[l].msg # "Eof"
                      THEN history[k].res = "Ok" /\ history[k].out = Terminator
                      ELSE history[k].res = "InvalidInput" /\ history[k].out = <<>>
             /\ Cardinality({ k \in ResponseSpan(j) : history[k].out = Terminator })
                  = IF \E k \in ResponseSpan(j) : history[k].msg = "Eof" THEN 1 ELSE 0

C4_Witness ==
    /\ Len(history) = 4
    /\ history[1].msg = "Header" /\ Accepted(1) /\ history[1].size.tag = "Chunked"
    /\ history[2].msg = "Chunk" /\ history[2].out # <<>>
    /\ history[3].msg = "Eof" /\ history[3].out = Terminator
    /\ history[4].msg = "Eof" /\ history[4].res = "InvalidInput"
    /\ dst = HeadBytes \o history[2].out \o Terminator

\* C12: in every framing mode (fixed-length, chunked, no-body) a zero-length
\* Chunk handed to the active payload encoder appends no byte, returns
\* success and leaves the payload encoder as it was, still active.
C12_EmptyChunkNoOp ==
    \A i \in 1..Len(history) :
        (history[i].msg = "Chunk" /\ history[i].bytes = <<>> /\ Open(i))
          => /\ history[i].kind \in {"Length", "Chunked", "NoBody"}
             /\ history[i].res = "Ok"
             /\ history[i].out = <<>>
             /\ history[i].after
             /\ history[i].pe = history[i].before

C12_Witness ==
    /\ Len(history) = 4
    /\ history[1].msg = "Header" /\ history[1].size.tag = "Chunked" /\ history[1].res = "Ok"
    /\ history[2].msg = "Chunk" /\ history[2].bytes = <<>> /\ history[2].res = "Ok"
    /\ history[3].msg = "Chunk" /\ history[3].bytes = <<"a">>
    /\ history[4].msg = "Eof"
    /\ dst = HeadBytes \o <<"1", "\r", "\n", "a", "\r", "\n", "0", "\r", "\n", "\r", "\n">>

C12_WitnessLength ==
    \E i \in 1..Len(history) :
        /\ history[i].msg = "Chunk" /\ history[i].bytes = <<>> /\ Open(i)
        /\ history[i].kind = "Length" /\ history[i].before[1].length = 2

C12_WitnessNoBody ==
    \E i \in 1..Len(history) :
        /\ history[i].msg = "Chunk" /\ history[i].bytes = <<>> /\ Open(i)
        /\ history[i].kind = "NoBody"

\* C13: in fixed-length mode the declared length alone decides the output:
\* under Length(0) every payload call appends nothing; under Length(n), n > 0,
\* every chunk is appended verbatim and Eof appends nothing, and every call
\* succeeds whatever the total is; under Empty every call appends nothing.
C13_FixedLengthOutput ==
    \A i \in 1..Len(history) :
        (history[i].msg # "Header" /\ Open(i))
          => LET sz == history[Owner(i)].size
             IN  /\ (sz.tag = "Length" /\ sz.n = 0)
                       => (history[i].out = <<>> /\ history[i].res = "Ok")
                 /\ (sz.tag = "Length" /\ sz.n > 0)
                       => /\ history[i].res = "Ok"
                          /\ history[i].out = IF history[i].msg = "Chunk"
                                              THEN history[i].bytes ELSE <<>>
                 /\ sz.tag = "Empty"
                       => (history[i].out = <<>> /\ history[i].res = "Ok")

\* more bytes than declared are accepted
C13_Witness ==
    /\ Len(history) = 4
    /\ history[1].msg = "Header" /\ history[1].res = "Ok"
    /\ history[1].size = [tag |-> "Length", n |-> 2]
    /\ history[2].msg = "Chunk" /\ history[2].bytes = <<"b", "a">>
    /\ history[3].msg = "Chunk" /\ history[3].bytes = <<"b", "a">>
    /\ history[4].msg = "Eof" /\ history[4].res = "Ok"
    /\ dst = HeadBytes \o <<"b", "a", "b", "a">>

C13_WitnessZero ==
    /\ Len(history) = 2
    /\ history[1].msg = "Header" /\ history[1].size = [tag |-> "Length", n |-> 0]
    /\ history[2].msg = "Chunk" /\ history[2].bytes = <<"b", "a">>
    /\ history[2].out = <<>>

\* C19: a Header accepted in AwaitingHeader leaves the payload encoder its
\* PayloadSize selects (Length(n): fixed-length(n), Chunked: chunked, Empty:
\* no-body) installed, whether the header collaborator succeeded or failed;
\* the collaborator is invoked once by an accepted Header and by no other
\* call.
C19_InstalledBeforeHeader ==
    \A i \in 1..Len(history) :
        /\ (history[i].msg = "Header" /\ ~ Open(i))
              => /\ history[i].hdr
                 /\ history[i].res \in {"Ok", "HeaderError"}
                 /\ history[i].pe =
                       Some([kind |-> CASE history[i].size.tag = "Length" -> "Length"
                                        [] history[i].size.tag = "Chunked" -> "Chunked"
                                        [] history[i].size.tag = "Empty" -> "NoBody",
                             length |-> history[i].size.n, eof |-> FALSE])
        /\ (history[i].msg = "Header" /\ Open(i)) => ~ history[i].hdr
        /\ history[i].msg # "Header" => ~ history[i].hdr

C19_Witness ==
    /\ Len(history) = 3
    /\ history[1].msg = "Header" /\ history[1].res = "HeaderError"
    /\ history[1].size.tag = "Chunked"
    /\ history[2].msg = "Header" /\ history[2].res = "InvalidInput" /\ ~ history[2].hdr
    /\ history[3].msg = "Chunk" /\ history[3].res = "Ok" /\ history[3].out # <<>>

Rejected(i) ==
    \/ history[i].msg = "Header" /\ Open(i)
    \/ history[i].msg # "Header" /\ ~ Open(i)

\* C20: a message rejected as a protocol violation changes nothing: no byte
\* is appended to the output and the payload encoder is as before (the same
\* encoder stays active after a rejected Header; none is active after a
\* rejected Chunk or Eof).
C20_RejectionChangesNothing ==
    \A i \in 1..Len(history) :
        Rejected(i)
          => /\ history[i].res = "InvalidInput"
             /\ history[i].out = <<>> /\ history[i].grew
             /\ history[i].pe = history[i].before
             /\ history[i].msg = "Header" <=> history[i].after

C20_Witness ==
    /\ Len(history) = 4
    /\ history[1].msg = "Eof" /\ history[1].res = "InvalidInput"
    /\ history[2].msg = "Header" /\ history[2].res = "Ok"
    /\ history[2].size.tag = "Chunked"
    /\ history[3].msg = "Header" /\ history[3].res = "InvalidInput"
    /\ history[4].msg = "Eof" /\ history[4].out = Terminator
    /\ dst = HeadBytes \o Terminator

(***************************************************************************)
(* interceptor::encoding::Encoder: one streaming compressor writing into a *)
(* Writer.  The compression library is a block coder here: input is        *)
(* buffered in win and leaves as blocks of `block` bytes, each block a     *)
(* count followed by the substituted bytes; a framed format (gzip, zlib,   *)
(* zstd) opens with a magic token and closes, on finish, with a checksum   *)
(* of the input; brotli has neither.                                       *)
(***************************************************************************)
Variants == {"Gzip", "Deflate", "Zstd", "Br"}

InBytes == {1, 2}

Faults == {"none", "write", "finish"}

Magic == <<90>>

RECURSIVE SumSeq(_)
SumSeq(s) == IF s = <<>> THEN 0 ELSE s[1] + SumSeq(Tail(s))

Trailer(sum) == <<100 + (sum % 7)>>

Substitute(bytes) == [i \in 1..Len(bytes) |-> bytes[i] + 10]

EncodeBlock(bytes) == <<Len(bytes)>> \o Substitute(bytes)

Opening(enc) == IF enc.framed /\ ~ enc.started THEN Magic ELSE <<>>

Framed(variant) == variant # "Br"

Encoder_new(variant, block, fault) ==
    [variant |-> variant, block |-> block, framed |-> Framed(variant), fault |-> fault,
     win |-> <<>>, buf |-> <<>>, started |-> FALSE, sum |-> 0]

\* the library moves every full block of win into the Writer's buffer
RECURSIVE Compress(_)
Compress(enc) ==
    IF Len(enc.win) < enc.block THEN enc
    ELSE Compress([enc EXCEPT
            !.buf = enc.buf \o Opening(enc) \o EncodeBlock(SubSeq(enc.win, 1, enc.block)),
            !.win = SubSeq(enc.win, enc.block + 1, Len(enc.win)),
            !.started = TRUE])

\* Encoder::write: write_all(data); nothing is written for empty data
Encoder_write(enc, data) ==
    IF Len(data) = 0 THEN [enc |-> enc, res |-> "Ok"]
    ELSE IF enc.fault = "write" THEN [enc |-> enc, res |-> "Io"]
    ELSE [enc |-> Compress([enc EXCEPT !.win = enc.win \o data,
                                        !.sum = enc.sum + SumSeq(data)]),
          res |-> "Ok"]

\* Writer::take: the buffer is split off and left empty
Writer_take(buf) == [buf |-> <<>>, bytes |-> buf]

\* Encoder::take
Encoder_take(enc) ==
    LET t == Writer_take(enc.buf)
    IN  [enc |-> [enc EXCEPT !.buf = t.buf], bytes |-> t.bytes]

\* Encoder::finish: consumes the encoder, returns what the Writer holds
Encoder_finish(enc) ==
    IF enc.fault = "finish" THEN [res |-> "Io", bytes |-> <<>>]
    ELSE [res |-> "Ok",
          bytes |-> enc.buf \o Opening(enc)
                      \o (IF Len(enc.win) > 0 THEN EncodeBlock(enc.win) ELSE <<>>)
                      \o (IF enc.framed THEN Trailer(enc.sum) ELSE <<>>)]

(***************************************************************************)
(* The upstream body B: a script of what its poll_frame still returns;     *)
(* once the script is exhausted it returns None.                           *)
(***************************************************************************)
DataChunks == { <<>>, <<1>>, <<2, 1>> }

Data(b) == [t |-> "Data", bytes |-> b]

Trailers == [t |-> "Trailers", bytes |-> <<>>]

UpErr == [t |-> "Err", bytes |-> <<>>]

Pending == [t |-> "Pending", bytes |-> <<>>]

UpNone == [t |-> "None", bytes |-> <<>>]

Items == { Data(b) : b \in DataChunks } \cup {Trailers, UpErr, Pending}

Scripts == UNION { [1..n -> Items] : n \in 0..MaxFrames }

\* this.inner.as_mut().poll_frame(cx)
inner_poll_frame(inn) ==
    IF inn = <<>> THEN [item |-> UpNone, inner |-> inn]
    ELSE [item |-> Head(inn), inner |-> Tail(inn)]

(***************************************************************************)
(* interceptor::encoding::EncodedBody                                      *)
(***************************************************************************)
\* what one poll_frame call leaves and returns; up counts the upstream polls
\* it made, saw_end tells that upstream returned None, fin that finish ran
Ret(st, enc, inn, res, err, bytes, up, saw_end, fin) ==
    [state |-> st, encoder |-> enc, inner |-> inn, res |-> res, err |-> err,
     bytes |-> bytes, up |-> up, saw_end |-> saw_end, fin |-> fin]

\* mutant: the completed state is not remembered
is_done_never(st) == FALSE

\* if this.state.is_none() { return Poll::Ready(None); }
is_done(st) == is_none(st)

\* mutant: what finish returns is dropped
on_end_drop_final(st, enc, inn, up) ==
    IF is_some(st)
    THEN LET f == Encoder_finish(unwrap(enc))
         IN  IF f.res # "Ok"
             THEN Ret(None, None, inn, "Err", "Io", <<>>, up, TRUE, TRUE)
             ELSE Ret(None, None, inn, "End", "", <<>>, up, TRUE, TRUE)
    ELSE Ret(st, enc, inn, "End", "", <<>>, up, TRUE, FALSE)

\* mutant: what finish returns is yielded as a frame even when it is empty
on_end_empty_frame(st, enc, inn, up) ==
    IF is_some(st)
    THEN LET f == Encoder_finish(unwrap(enc))
         IN  IF f.res # "Ok"
             THEN Ret(None, None, inn, "Err", "Io", <<>>, up, TRUE, TRUE)
             ELSE Ret(None, None, inn, "Data", "", f.bytes, up, TRUE, TRUE)
    ELSE Ret(st, enc, inn, "End", "", <<>>, up, TRUE, FALSE)

\* mutant: a failed finish hands the encoder back
on_end_keep_encoder(st, enc, inn, up) ==
    IF is_some(st)
    THEN LET f == Encoder_finish(unwrap(enc))
         IN  IF f.res # "Ok"
             THEN Ret(None, enc, inn, "Err", "Io", <<>>, up, TRUE, TRUE)
             ELSE IF Len(f.bytes) # 0
                  THEN Ret(None, None, inn, "Data", "", f.bytes, up, TRUE, TRUE)
                  ELSE Ret(None, None, inn, "End", "", <<>>, up, TRUE, TRUE)
    ELSE Ret(st, enc, inn, "End", "", <<>>, up, TRUE, FALSE)

\* the None arm of the match
on_end(st, enc, inn, up) ==
    IF is_some(st)
    THEN LET f == Encoder_finish(unwrap(enc))
         IN  IF f.res # "Ok"
             THEN Ret(None, None, inn, "Err", "Io", <<>>, up, TRUE, TRUE)
             ELSE IF Len(f.bytes) # 0
                  THEN Ret(None, None, inn, "Data", "", f.bytes, up, TRUE, TRUE)
                  ELSE Ret(None, None, inn, "End", "", <<>>, up, TRUE, TRUE)
    ELSE Ret(st, enc, inn, "End", "", <<>>, up, TRUE, FALSE)

\* mutant: one upstream frame per poll, an empty take is yielded as a frame
poll_loop_no_continue(st, enc, inn, up) ==
    LET p == inner_poll_frame(inn)
    IN  CASE p.item.t = "Pending" ->
                Ret(st, enc, p.inner, "Pending", "", <<>>, up + 1, FALSE, FALSE)
          [] p.item.t = "Data" ->
                LET w == Encoder_write(unwrap(enc), p.item.bytes)
                IN  IF w.res # "Ok"
                    THEN Ret(st, Some(w.enc), p.inner, "Err", "Io", <<>>,
                             up + 1, FALSE, FALSE)
                    ELSE LET t == Encoder_take(w.enc)
                         IN  Ret(st, Some(t.enc), p.inner, "Data", "", t.bytes,
                                 up + 1, FALSE, FALSE)
          [] p.item.t = "Trailers" ->
                Ret(st, enc, p.inner, "Err", "InvalidBody", <<>>, up + 1, FALSE, FALSE)
          [] p.item.t = "Err" ->
                Ret(st, enc, p.inner, "Err", "InvalidBody", <<>>, up + 1, FALSE, FALSE)
          [] p.item.t = "None" -> on_end(st, enc, p.inner, up + 1)

\* the loop of poll_frame
RECURSIVE poll_loop(_, _, _, _)
poll_loop(st, enc, inn, up) ==
    LET p == inner_poll_frame(inn)
    IN  CASE p.item.t = "Pending" ->
                Ret(st, enc, p.inner, "Pending", "", <<>>, up + 1, FALSE, FALSE)
          [] p.item.t = "Data" ->
                LET w == Encoder_write(unwrap(enc), p.item.bytes)
                IN  IF w.res # "Ok"
                    THEN Ret(st, Some(w.enc), p.inner, "Err", "Io", <<>>,
                             up + 1, FALSE, FALSE)
                    ELSE LET t == Encoder_take(w.enc)
                         IN  IF Len(t.bytes) = 0
                             THEN poll_loop(st, Some(t.enc), p.inner, up + 1)
                             ELSE Ret(st, Some(t.enc), p.inner, "Data", "", t.bytes,
                                      up + 1, FALSE, FALSE)
          [] p.item.t = "Trailers" ->
                Ret(st, enc, p.inner, "Err", "InvalidBody", <<>>, up + 1, FALSE, FALSE)
          [] p.item.t = "Err" ->
                Ret(st, enc, p.inner, "Err", "InvalidBody", <<>>, up + 1, FALSE, FALSE)
          [] p.item.t = "None" -> on_end(st, enc, p.inner, up + 1)

\* EncodedBody::poll_frame
poll_frame(st, enc, inn) ==
    IF is_done(st)
    THEN Ret(st, enc, inn, "End", "", <<>>, 0, FALSE, FALSE)
    ELSE poll_loop(st, enc, inn, 0)

\* self.inner.is_end_stream() of an upstream whose hint is exact (as that of a
\* body holding its remaining frames): true once no frame is left
inner_is_end_stream(inn) == inn = <<>>

\* EncodedBody::is_end_stream
is_end_stream(inn) == inner_is_end_stream(inn)

REIdle ==
    /\ payload_encoder = None
    /\ dst = <<>>
    /\ history = <<>>

\* EncodedBody::new(b, encoder)
BodyStart ==
    \E b \in Scripts, variant \in Variants, block \in 1..MaxBlock, fault \in Faults :
        /\ inner = b
        /\ encoder = Some(Encoder_new(variant, block, fault))
        /\ state = Some(TRUE)
        /\ polls = <<>>
        /\ init0 = [inner |-> b, encoder |-> Encoder_new(variant, block, fault)]

BodyInit == BodyStart /\ REIdle /\ SelIdle /\ ICIdle

PollFrame ==
    /\ Len(polls) < MaxPolls
    /\ LET r == poll_frame(state, encoder, inner)
       IN  /\ state' = r.state
           /\ encoder' = r.encoder
           /\ inner' = r.inner
           /\ polls' = Append(polls,
                 [res |-> r.res, err |-> r.err, bytes |-> r.bytes, up |-> r.up,
                  saw_end |-> r.saw_end, fin |-> r.fin, was_done |-> is_none(state),
                  enc0 |-> encoder, inner0 |-> inner,
                  end_hint |-> is_end_stream(inner)])
    /\ UNCHANGED <<init0, reVars, selVars, icVars>>

NextBody == PollFrame

SpecBody == BodyInit /\ [][NextBody]_vars

(***************************************************************************)
(* Reading the poll history of an EncodedBody.                             *)
(***************************************************************************)
RECURSIVE ConcatFrames(_)
ConcatFrames(n) ==
    IF n = 0 THEN <<>>
    ELSE ConcatFrames(n - 1) \o (IF polls[n].res = "Data" THEN polls[n].bytes ELSE <<>>)

RECURSIVE AllData(_)
AllData(script) ==
    IF script = <<>> THEN <<>>
    ELSE (IF Head(script).t = "Data" THEN Head(script).bytes ELSE <<>>)
            \o AllData(Tail(script))

\* the encoder's output for one contiguous write of `input` followed by finish
OneShot(enc, input) == Encoder_finish(Encoder_write(enc, input).enc).bytes

\* the matching decoder: magic, blocks (count, substituted bytes), checksum
RECURSIVE DecodeBlocks(_)
DecodeBlocks(s) ==
    IF s = <<>> THEN [ok |-> TRUE, bytes |-> <<>>]
    ELSE IF s[1] < 1 \/ s[1] + 1 > Len(s) THEN [ok |-> FALSE, bytes |-> <<>>]
    ELSE LET rest == DecodeBlocks(SubSeq(s, s[1] + 2, Len(s)))
         IN  [ok |-> rest.ok /\ \A i \in 2..(s[1] + 1) : s[i] - 10 \in InBytes,
              bytes |-> [i \in 1..s[1] |-> s[i + 1] - 10] \o rest.bytes]

Decompress(variant, s) ==
    IF Framed(variant)
    THEN IF Len(s) < 2 \/ <<s[1]>> # Magic THEN [ok |-> FALSE, bytes |-> <<>>]
         ELSE LET d == DecodeBlocks(SubSeq(s, 2, Len(s) - 1))
              IN  [ok |-> d.ok /\ <<s[Len(s)]>> = Trailer(SumSeq(d.bytes)),
                   bytes |-> d.bytes]
    ELSE DecodeBlocks(s)

Completed(i) == \E j \in 1..(i - 1) : polls[j].saw_end

\* C5: finish is invoked at most once, namely by the first poll that observes
\* upstream end-of-stream; every poll made after that one reports
\* end-of-stream, polls upstream zero times and does not invoke finish.
C5_FinishOnce ==
    /\ Cardinality({ i \in 1..Len(polls) : polls[i].fin }) <= 1
    /\ \A i \in 1..Len(polls) :
          /\ polls[i].fin <=> (polls[i].saw_end /\ ~ Completed(i))
          /\ Completed(i) => /\ polls[i].res = "End"
                             /\ polls[i].up = 0
                             /\ ~ polls[i].fin
                             /\ ~ polls[i].saw_end

C5_Witness ==
    /\ Len(polls) >= 3
    /\ polls[Len(polls) - 2].fin /\ polls[Len(polls) - 2].res = "Data"
    /\ polls[Len(polls) - 1].res = "End"
    /\ polls[Len(polls)].res = "End"
    /\ Len(init0.inner) = MaxFrames

OnlyData(script) == \A i \in 1..Len(script) : script[i].t \in {"Data", "Pending"}

DrivenToEnd == \E i \in 1..Len(polls) : polls[i].res = "End"

\* C6: when the upstream yields only data frames (and not-ready results), the
\* compressor does not fail and the stream has been driven to end-of-stream,
\* the concatenation of the emitted frames is the encoder's output for one
\* contiguous write of all upstream bytes followed by finish, and the matching
\* decoder turns it back into the upstream bytes.
C6_RoundTrip ==
    (OnlyData(init0.inner) /\ init0.encoder.fault = "none" /\ DrivenToEnd)
      => /\ ConcatFrames(Len(polls)) = OneShot(init0.encoder, AllData(init0.inner))
         /\ Decompress(init0.encoder.variant, ConcatFrames(Len(polls))).ok
         /\ Decompress(init0.encoder.variant, ConcatFrames(Len(polls))).bytes
               = AllData(init0.inner)

C6_Witness ==
    /\ OnlyData(init0.inner) /\ init0.encoder.fault = "none" /\ DrivenToEnd
    /\ Len(AllData(init0.inner)) >= 4
    /\ Cardinality({ i \in 1..Len(polls) : polls[i].res = "Data" }) >= 3
    /\ init0.encoder.block = 2

\* the encoder after the data frames `items` were written and drained in turn
RECURSIVE Feed(_, _)
Feed(enc, items) ==
    IF items = <<>> THEN enc
    ELSE Feed(Encoder_take(Encoder_write(enc, Head(items).bytes).enc).enc, Tail(items))

\* what finish returns to the poll that reaches upstream end-of-stream
FinishOf(i) == Encoder_finish(Feed(unwrap(polls[i].enc0), polls[i].inner0))

\* C15: the first poll that observes upstream end-of-stream calls finish; if
\* finish returns non-empty bytes that poll yields exactly them as a data
\* frame and the next poll reports end-of-stream without polling upstream; if
\* it returns empty bytes that same poll reports end-of-stream.
C15_FinishFrameThenEnd ==
    \A i \in 1..Len(polls) :
        (polls[i].saw_end /\ ~ polls[i].was_done)
          => /\ polls[i].fin
             /\ (FinishOf(i).res = "Ok" /\ FinishOf(i).bytes # <<>>)
                   => /\ polls[i].res = "Data"
                      /\ polls[i].bytes = FinishOf(i).bytes
                      /\ i < Len(polls) => /\ polls[i + 1].res = "End"
                                           /\ polls[i + 1].up = 0
             /\ (FinishOf(i).res = "Ok" /\ FinishOf(i).bytes = <<>>)
                   => polls[i].res = "End"

C15_Witness ==
    \E i \in 1..Len(polls) :
        /\ polls[i].saw_end /\ ~ polls[i].was_done /\ polls[i].up >= 2
        /\ FinishOf(i).res = "Ok" /\ Len(FinishOf(i).bytes) >= 2
        /\ polls[i].res = "Data"
        /\ i < Len(polls) /\ polls[i + 1].res = "End"

C15_WitnessEmpty ==
    \E i \in 1..Len(polls) :
        /\ polls[i].saw_end /\ ~ polls[i].was_done
        /\ FinishOf(i).res = "Ok" /\ FinishOf(i).bytes = <<>>
        /\ polls[i].res = "End"
        /\ \E j \in 1..(i - 1) : polls[j].res = "Data"

\* the k-th upstream result polled by poll i
Polled(i, k) ==
    IF k <= Len(polls[i].inner0) THEN polls[i].inner0[k] ELSE UpNone

\* C16: every frame yielded is a data frame of at least one byte; a data
\* frame from upstream whose write leaves nothing to drain (a zero-length
\* chunk included) makes the same poll pull upstream again, one whose write
\* leaves output ends the poll with exactly that output; an upstream trailers
\* frame ends the poll with a body-format error.
C16_FramesNonEmpty ==
    \A i \in 1..Len(polls) :
        /\ polls[i].res \in {"Data", "End", "Pending", "Err"}
        /\ polls[i].res = "Data" => Len(polls[i].bytes) >= 1
        /\ polls[i].res # "Data" => polls[i].bytes = <<>>
        /\ \A k \in 1..polls[i].up :
              LET item == Polled(i, k)
                  e == Feed(unwrap(polls[i].enc0), SubSeq(polls[i].inner0, 1, k - 1))
                  w == Encoder_write(e, item.bytes)
              IN  /\ k < polls[i].up => item.t = "Data"
                  /\ (item.t = "Data" /\ w.res = "Ok")
                        => IF Encoder_take(w.enc).bytes = <<>>
                           THEN polls[i].up > k
                           ELSE /\ polls[i].up = k
                                /\ polls[i].res = "Data"
                                /\ polls[i].bytes = Encoder_take(w.enc).bytes
                  /\ item.t = "Trailers"
                        => /\ polls[i].up = k
                           /\ polls[i].res = "Err" /\ polls[i].err = "InvalidBody"

\* an empty chunk and a short chunk are absorbed, the third chunk is yielded
C16_Witness ==
    \E i \in 1..Len(polls) :
        /\ polls[i].up = 3 /\ polls[i].res = "Data"
        /\ Polled(i, 1) = Data(<<>>)
        /\ Polled(i, 2).t = "Data" /\ Polled(i, 3).t = "Data"

C16_WitnessTrailers ==
    \E i \in 1..Len(polls) :
        /\ polls[i].up = 2 /\ Polled(i, 2) = Trailers
        /\ polls[i].res = "Err"

\* C17: once is_end_stream() has reported true, no pull yields a data frame.
C17_EndHintConservative ==
    \A i \in 1..Len(polls) : \A j \in i..Len(polls) :
        polls[i].end_hint => polls[j].res # "Data"

\* C18: the encoder is present exactly when the stream has not yet observed
\* upstream end-of-stream: encoder is Some iff state is Some.
C18_EncoderIffState ==
    is_some(encoder) <=> is_some(state)

C18_Witness ==
    /\ is_none(encoder) /\ is_none(state)
    /\ \E i, j, k \in 1..Len(polls) :
          /\ i < k /\ j < k
          /\ polls[i].res = "Pending"
          /\ polls[j].res = "Err" /\ polls[j].err = "Io" /\ ~ polls[j].fin
          /\ polls[k].fin

C18_WitnessFinishError ==
    /\ is_none(encoder) /\ is_none(state)
    /\ \E k \in 1..Len(polls) : polls[k].fin /\ polls[k].res = "Err"

C18_WitnessActive ==
    /\ is_some(encoder) /\ is_some(state)
    /\ \E j \in 1..Len(polls) : polls[j].res = "Err"

\* C7: once a pull has returned an error, no later pull yields a data frame.
C7_ErrorTerminates ==
    \A i, j \in 1..Len(polls) :
        (i < j /\ polls[i].res = "Err") => polls[j].res # "Data"

(***************************************************************************)
(* Header values are byte strings: a text value is its sequence of         *)
(* characters; a value that is not visible ASCII has text = FALSE.         *)
(***************************************************************************)
s_zstd == <<"z", "s", "t", "d">>

s_br == <<"b", "r">>

s_gzip == <<"g", "z", "i", "p">>

s_deflate == <<"d", "e", "f", "l", "a", "t", "e">>

s_identity == <<"i", "d", "e", "n", "t", "i", "t", "y">>

s_x_gzip == <<"x", "-", "g", "z", "i", "p">>

s_GZIP == <<"G", "Z", "I", "P">>

Separator == <<",", " ">>

AcceptTokens == {s_zstd, s_br, s_gzip, s_deflate, s_identity, s_x_gzip, s_GZIP}

RECURSIVE Join(_)
Join(tokens) ==
    IF tokens = <<>> THEN <<>>
    ELSE IF Len(tokens) = 1 THEN tokens[1]
    ELSE tokens[1] \o Separator \o Join(Tail(tokens))

\* str::contains
contains(s, pat) ==
    \E i \in 1..(Len(s) - Len(pat) + 1) : SubSeq(s, i, i + Len(pat) - 1) = pat

\* mutant: gzip is preferred to br
select_gzip_first(accept_encodings) ==
    IF contains(accept_encodings, s_zstd) THEN Some("Zstd")
    ELSE IF contains(accept_encodings, s_gzip) THEN Some("Gzip")
    ELSE IF contains(accept_encodings, s_br) THEN Some("Br")
    ELSE IF contains(accept_encodings, s_deflate) THEN Some("Deflate")
    ELSE None

\* Encoder::select (the variant of the encoder it constructs)
select(accept_encodings) ==
    IF contains(accept_encodings, s_zstd) THEN Some("Zstd")
    ELSE IF contains(accept_encodings, s_br) THEN Some("Br")
    ELSE IF contains(accept_encodings, s_gzip) THEN Some("Gzip")
    ELSE IF contains(accept_encodings, s_deflate) THEN Some("Deflate")
    ELSE None

\* Encoder::name
Encoder_name(variant) ==
    CASE variant = "Gzip" -> s_gzip
      [] variant = "Deflate" -> s_deflate
      [] variant = "Zstd" -> s_zstd
      [] variant = "Br" -> s_br

TokenLists == UNION { [1..n -> AcceptTokens] : n \in 0..MaxTokens }

SelStart ==
    \E tokens \in TokenLists :
        /\ accept_tokens = tokens
        /\ accept_header = Join(tokens)
        /\ selected = None
        /\ sel_pc = "call"

SelInit == SelStart /\ REIdle /\ BodyIdle /\ ICIdle

Select ==
    /\ sel_pc = "call"
    /\ selected' = select(accept_header)
    /\ sel_pc' = "done"
    /\ UNCHANGED <<accept_tokens, accept_header, reVars, bodyVars, icVars>>

NextSel == Select

SpecSel == SelInit /\ [][NextSel]_vars

\* the tokens of the value, as a set: their order is forgotten
Listed == { accept_tokens[i] : i \in 1..Len(accept_tokens) }

Mentions(pat) == \E t \in Listed : contains(t, pat)

\* C9: Encoder::select picks zstd if any listed token contains "zstd", else
\* br, else gzip, else deflate, whatever the order of the tokens, and None
\* when no token contains any of the four; name() of the selected encoder is
\* the matching Content-Encoding token.  "gzip, br, zstd" selects zstd and
\* "gzip, deflate" selects gzip.
C9_SelectPrecedence ==
    sel_pc = "done" =>
        /\ Mentions(s_zstd) => (is_some(selected) /\ Encoder_name(unwrap(selected)) = s_zstd)
        /\ (~ Mentions(s_zstd) /\ Mentions(s_br))
              => (is_some(selected) /\ Encoder_name(unwrap(selected)) = s_br)
        /\ (~ Mentions(s_zstd) /\ ~ Mentions(s_br) /\ Mentions(s_gzip))
              => (is_some(selected) /\ Encoder_name(unwrap(selected)) = s_gzip)
        /\ (~ Mentions(s_zstd) /\ ~ Mentions(s_br) /\ ~ Mentions(s_gzip)
              /\ Mentions(s_deflate))
              => (is_some(selected) /\ Encoder_name(unwrap(selected)) = s_deflate)
        /\ (~ Mentions(s_zstd) /\ ~ Mentions(s_br) /\ ~ Mentions(s_gzip)
              /\ ~ Mentions(s_deflate))
              => selected = None
        /\ accept_tokens = <<s_gzip, s_br, s_zstd>>
              => (accept_header = <<"g", "z", "i", "p", ",", " ", "b", "r", ",", " ",
                                       "z", "s", "t", "d">>
                  /\ selected = Some("Zstd"))
        /\ accept_tokens = <<s_gzip, s_deflate>> => selected = Some("Gzip")

C9_Witness ==
    /\ sel_pc = "done"
    /\ accept_tokens = <<s_gzip, s_br, s_zstd>>
    /\ selected = Some("Zstd")
    /\ Encoder_name(unwrap(selected)) = <<"z", "s", "t", "d">>

(***************************************************************************)
(* http::HeaderMap: each header name has the sequence of its values.       *)
(***************************************************************************)
Text(s) == [text |-> TRUE, s |-> s]

Opaque == [text |-> FALSE, s |-> <<>>]

\* HeaderValue::to_str
to_str(value) == IF value.text THEN Some(value.s) ELSE None

contains_key(headers, key) == headers[key] # <<>>

get(headers, key) == IF headers[key] = <<>> THEN None ELSE Some(headers[key][1])

remove(headers, key) == [headers EXCEPT ![key] = <<>>]

append(headers, key, value) == [headers EXCEPT ![key] = Append(@, value)]

NO_CONTENT == 204

SWITCHING_PROTOCOLS == 101

MinCompressSize == 1024

StatusCodes == {200, NO_CONTENT, SWITCHING_PROTOCOLS}

\* the values of the request's Accept-Encoding header, if it has one
AcceptHeaders ==
    { <<>>, <<Opaque>>, <<Text(<<>>)>>, <<Text(s_gzip)>>, <<Text(s_identity)>>,
      <<Text(Join(<<s_gzip, s_br, s_zstd>>))>>, <<Text(Join(<<s_deflate, s_br>>))>> }

Requests ==
    { [headers |-> [content_encoding |-> ce, accept_encoding |-> ae]] :
        ce \in { <<>>, <<Text(s_gzip)>> }, ae \in AcceptHeaders }

\* size_hint().upper() of a response body
UpperBounds ==
    { None, Some(0), Some(1), Some(MinCompressSize - 1), Some(MinCompressSize),
      Some(MinCompressSize + 1), Some(4 * MinCompressSize) }

\* a ResponseBody: a concrete body, or the stream that wraps one
PlainBody(empty, upper) ==
    [kind |-> "once", empty |-> empty, upper |-> upper,
     encoder |-> None, wrapped |-> None]

\* ResponseBody::stream(UnsyncBoxBody::new(EncodedBody::new(body.take(), encoder)))
StreamBody(body, variant) ==
    [kind |-> "stream", empty |-> FALSE, upper |-> None,
     encoder |-> Some(variant), wrapped |-> Some(body)]

Bodies ==
    { PlainBody(empty, upper) : empty \in BOOLEAN, upper \in UpperBounds }
      \ { PlainBody(TRUE, upper) : upper \in UpperBounds \ {Some(0)} }

Responses ==
    { [status |-> st, headers |-> [content_length |-> cl, content_encoding |-> ce],
       body |-> b] :
        st \in StatusCodes, cl \in { <<>>, <<Text(<<"9">>)>> },
        ce \in { <<>>, <<Text(s_gzip)>> }, b \in Bodies }

\* mutant: the threshold excludes 1024
too_small_below(upper) == is_some(upper) /\ unwrap(upper) < MinCompressSize

\* Some(upper) if upper <= 1024
too_small(upper) == is_some(upper) /\ unwrap(upper) <= MinCompressSize

\* mutant: only No Content is skipped
status_skipped_no_content(status_code) == status_code = NO_CONTENT

\* the status test
status_skipped(status_code) ==
    status_code = NO_CONTENT \/ status_code = SWITCHING_PROTOCOLS

\* "response has already encoded": the test is made on the request's headers
already_encoded(rq, rs) == contains_key(rq.headers, "content_encoding")

\* mutant: Content-Length is left in place
compress_keep_length(rs, variant) ==
    [rs EXCEPT
        !.body = StreamBody(rs.body, variant),
        !.headers = append(rs.headers, "content_encoding", Text(Encoder_name(variant)))]

\* the tail of on_response: body substitution and header mutation
compress(rs, variant) ==
    [rs EXCEPT
        !.body = StreamBody(rs.body, variant),
        !.headers = append(remove(rs.headers, "content_length"),
                           "content_encoding", Text(Encoder_name(variant)))]

\* EncodeInterceptor::on_response: the response it leaves
on_response(rq, rs) ==
    IF status_skipped(rs.status) THEN rs
    ELSE IF already_encoded(rq, rs) THEN rs
    ELSE LET possible_encodings == get(rq.headers, "accept_encoding")
         IN  IF is_none(possible_encodings) THEN rs
             ELSE LET accept == to_str(unwrap(possible_encodings))
                  IN  IF is_none(accept) THEN rs
                      ELSE LET enc == select(unwrap(accept))
                           IN  IF is_none(enc) THEN rs
                               ELSE IF rs.body.empty THEN rs
                               ELSE IF too_small(rs.body.upper) THEN rs
                               ELSE compress(rs, unwrap(enc))

ICStart ==
    \E rq \in Requests, rs \in Responses :
        /\ req = rq
        /\ resp = rs
        /\ resp0 = rs
        /\ ic_pc = "call"

ICInit == ICStart /\ REIdle /\ BodyIdle /\ SelIdle

OnResponse ==
    /\ ic_pc = "call"
    /\ resp' = on_response(req, resp)
    /\ ic_pc' = "done"
    /\ UNCHANGED <<req, resp0, reVars, bodyVars, selVars>>

NextIC == OnResponse

SpecIC == ICInit /\ [][NextIC]_vars

\* C8: a response that already carries a Content-Encoding header is left as
\* it was by on_response: same headers, same body.
C8_EncodedResponseUntouched ==
    (ic_pc = "done" /\ contains_key(resp0.headers, "content_encoding"))
      => resp = resp0

\* the request asks for a supported algorithm in a text Accept-Encoding value
Negotiated ==
    /\ contains_key(req.headers, "accept_encoding")
    /\ req.headers.accept_encoding[1].text
    /\ \E t \in {s_zstd, s_br, s_gzip, s_deflate} :
          contains(req.headers.accept_encoding[1].s, t)

\* every skip condition on_response tests before the size threshold passes
ReachesThreshold ==
    /\ resp0.status \notin {NO_CONTENT, SWITCHING_PROTOCOLS}
    /\ ~ contains_key(req.headers, "content_encoding")
    /\ Negotiated
    /\ ~ resp0.body.empty

C10_WitnessSkip ==
    /\ ic_pc = "done" /\ ReachesThreshold
    /\ resp0.body.upper = Some(1024)
    /\ resp.body = resp0.body

\* the Accept-Encoding value of the request, when it is text
AcceptText ==
    IF contains_key(req.headers, "accept_encoding") /\ req.headers.accept_encoding[1].text
    THEN req.headers.accept_encoding[1].s
    ELSE <<>>

Substituted == resp.body.kind = "stream" /\ resp0.body.kind = "once"

\* C11: whenever on_response has substituted the body with the compressing
\* stream, the response has no Content-Length header and its Content-Encoding
\* header has gained, as its last value, the token of the algorithm selected
\* for the request (zstd before br before gzip before deflate); whenever the
\* body has not been substituted, the headers are as they were.
C11_HeadersFollowSubstitution ==
    ic_pc = "done" =>
        /\ Substituted =>
              /\ ~ contains_key(resp.headers, "content_length")
              /\ Len(resp.headers.content_encoding)
                    = Len(resp0.headers.content_encoding) + 1
              /\ LET v == resp.headers.content_encoding[Len(resp.headers.content_encoding)]
                 IN  /\ v.text
                     /\ v.s \in {s_gzip, s_deflate, s_zstd, s_br}
                     /\ contains(AcceptText, v.s)
                     /\ v.s = s_gzip => ~ contains(AcceptText, s_br)
                     /\ v.s # s_zstd => ~ contains(AcceptText, s_zstd)
                     /\ resp.body.encoder
                           = Some(CASE v.s = s_gzip -> "Gzip" [] v.s = s_deflate -> "Deflate"
                                    [] v.s = s_zstd -> "Zstd" [] v.s = s_br -> "Br")
        /\ ~ Substituted => (resp.headers = resp0.headers /\ resp.body = resp0.body)
        /\ resp.headers # resp0.headers => Substituted

C11_Witness ==
    /\ ic_pc = "done"
    /\ Substituted
    /\ contains_key(resp0.headers, "content_length")
    /\ resp.headers.content_encoding = <<Text(<<"b", "r">>)>>
    /\ resp.headers.content_length = <<>>

\* C14: when the status is No Content (204) or Switching Protocols (101),
\* on_response leaves the response as it was: same headers, same body, no
\* compressing stream installed, whatever the request and the response are.
C14_StatusSkipped ==
    (ic_pc = "done" /\ resp0.status \in {204, 101})
      => (resp = resp0 /\ resp.body.kind = "once")

C14_Witness ==
    /\ ic_pc = "done"
    /\ resp0.status = 101
    /\ ~ contains_key(req.headers, "content_encoding")
    /\ AcceptText = s_gzip
    /\ resp0.body.upper = None /\ ~ resp0.body.empty
    /\ resp = resp0

====
